---- MODULE Spec2Model ----
(***************************************************************************)
(* Weather data pipeline: ingestion (scripts/test_api_call.py),            *)
(* conformance (scripts/silver_transform.py) and curation                  *)
(* (scripts/gold_transform.py), run one stage at a time over a file store. *)
(*                                                                         *)
(* Strings the code inspects character by character (location names, file  *)
(* names) are sequences of one-character strings.  Wall-clock time is an   *)
(* instant counted in ticks; strftime("%Y%m%d_%H%M%S") keeps whole seconds *)
(* only.                                                                   *)
(***************************************************************************)
EXTENDS Integers, Sequences, FiniteSets, TLC

VARIABLES
    locations,  \* CONFIG_LOCATIONS: the configured location names, in order
    now,        \* datetime.now(), in ticks
    files,      \* the data lake: file path -> file content
    cache,      \* requests_cache store: location name -> cached 200 body
    run,        \* number of stage invocations started so far
    pc,         \* position of the running stage ("idle" when none runs)
    i,          \* test_api_call.main: index of the location being handled
    total,      \* urllib3 Retry.total left for the request in progress
    attempts,   \* HTTP exchanges issued for the request in progress
    data,       \* test_api_call.main: the payload fetched for location i
    log,        \* logging.info lines of the validators for location i
    outcome,    \* how the last stage invocation ended (or "running")
    queue,      \* silver main / process_gold: files still to process
    df_daily,   \* curation: the daily table being curated
    built       \* curation: build_daily_summary / build_alerts output

vars == <<locations, now, files, cache, run, pc, i, total, attempts, data,
          log, outcome, queue, df_daily, built>>

----------------------------------------------------------------------------
(* Bounds of the model *)

MaxInstant == 2      \* the clock stops ticking at this instant
MaxRuns == 4         \* stage invocations per behaviour of the pipeline
MaxIngestions == 1   \* invocations per behaviour of ingestion alone
MaxLocations == 2    \* length of the configured location list
MaxDefects == 2      \* top-level keys of a served payload that deviate
MaxRows == 2         \* rows of a daily table handed to a builder

(* Ticks per wall-clock second: strftime drops the sub-second part. *)
TicksPerSecond == 2

----------------------------------------------------------------------------
(* Characters and strings *)

UpperLetters == <<"A","B","C","D","E","F","G","H","I","J","K","L","M",
                  "N","O","P","Q","R","S","T","U","V","W","X","Y","Z">>
LowerLetters == <<"a","b","c","d","e","f","g","h","i","j","k","l","m",
                  "n","o","p","q","r","s","t","u","v","w","x","y","z">>
Digits == <<"0","1","2","3","4","5","6","7","8","9">>

Range(s) == {s[k] : k \in DOMAIN s}

(* str.lower() on one character *)
Lower(c) ==
    IF \E k \in DOMAIN UpperLetters : UpperLetters[k] = c
    THEN LowerLetters[CHOOSE k \in DOMAIN UpperLetters : UpperLetters[k] = c]
    ELSE c

(* the character class [a-z0-9_\-] *)
SafeChars == Range(LowerLetters) \cup Range(Digits) \cup {"_", "-"}

IsSafeChar(c) == c \in SafeChars

(* re.sub(r"[^a-z0-9_\-]", "", name.lower().replace(" ", "_")) *)
sanitize_filename(name) ==
    SelectSeq([k \in DOMAIN name |->
                  IF Lower(name[k]) = " " THEN "_" ELSE Lower(name[k])],
              IsSafeChar)

DefaultLocation == <<"l","o","c","a","t","i","o","n">>

(* silver_transform._sanitize_filename: (name or "location") first *)
_sanitize_filename(name) ==
    sanitize_filename(IF name = <<>> THEN DefaultLocation ELSE name)

(* str.split(sep)[0]: the text before the first occurrence of sep *)
OccursAt(s, sep, k) ==
    /\ k + Len(sep) - 1 <= Len(s)
    /\ SubSeq(s, k, k + Len(sep) - 1) = sep

SplitHead(s, sep) ==
    IF \E k \in 1..Len(s) : OccursAt(s, sep, k)
    THEN LET first == CHOOSE k \in 1..Len(s) :
                         /\ OccursAt(s, sep, k)
                         /\ \A j \in 1..(k - 1) : ~OccursAt(s, sep, j)
         IN  SubSeq(s, 1, first - 1)
    ELSE s

RawTag == <<"_","r","a","w","_">>
JsonExt == <<".","j","s","o","n">>
ParquetExt == <<".","p","a","r","q","u","e","t">>

(* datetime.now().strftime("%Y%m%d_%H%M%S"): whole seconds, two digits here *)
strftime(instant) ==
    LET sec == instant \div TicksPerSecond
    IN  <<Digits[((sec \div 10) % 10) + 1], Digits[(sec % 10) + 1]>>

(* ASCII order of the characters that occur in file names *)
AsciiOrder == <<" ", "!", "-", ".">> \o Digits \o UpperLetters \o <<"_">>
              \o LowerLetters

Rank(c) == CHOOSE k \in DOMAIN AsciiOrder : AsciiOrder[k] = c

(* s < t as Python compares str *)
StrLess(s, t) ==
    \E k \in 1..(Len(t)) :
        /\ \A j \in 1..(k - 1) : j <= Len(s) /\ s[j] = t[j]
        /\ \/ k = Len(s) + 1
           \/ k <= Len(s) /\ Rank(s[k]) < Rank(t[k])

----------------------------------------------------------------------------
(* Raw payloads (the parsed JSON body of the forecast endpoint)             *)
(*                                                                         *)
(* A payload is the set of its top-level keys plus its three sections.  A  *)
(* section is a mapping: the set of its keys and, for hourly and daily,    *)
(* one array per key (for current, one scalar per key, kept as a           *)
(* one-element array).  A key whose value is null or {} has an empty       *)
(* mapping: the code treats both through "not value".                      *)

NaN == -1000   \* pandas NaN / NaT: what errors="coerce" leaves behind

Required == <<"latitude", "longitude", "timezone", "hourly", "daily", "current">>

HourlyMetrics == {"temperature_2m"}
DailyMetrics == {"temperature_2m_max", "temperature_2m_min",
                 "wind_speed_10m_max", "precipitation_sum"}
SectionKeys == {"time"} \cup HourlyMetrics \cup DailyMetrics

Mapping(cols, arr) ==
    [cols |-> cols, arr |-> [c \in SectionKeys |-> IF c \in cols THEN arr[c] ELSE <<>>]]

EmptyMapping == Mapping({}, [c \in SectionKeys |-> <<>>])

(* every key of cols carries an array of n copies of v; time carries m entries *)
Filled(cols, m, n, v) ==
    Mapping(cols, [c \in SectionKeys |->
                      IF c = "time" THEN [k \in 1..m |-> k] ELSE [k \in 1..n |-> v]])

SectionShapes(metrics) ==
    { EmptyMapping,
      Filled(metrics, 0, 1, 20),                 \* no "time" key
      Filled({"time"} \cup metrics, 0, 0, 20),   \* every array empty
      Filled({"time"} \cup metrics, 0, 1, 20),   \* empty time, ragged metrics
      Filled({"time"} \cup metrics, 1, 1, 20) }  \* complete

HourlyOk == Filled({"time"} \cup HourlyMetrics, 1, 1, 20)
DailyOk == Filled({"time"} \cup DailyMetrics, 1, 1, 20)
CurrentOk == Filled({"time"} \cup HourlyMetrics, 1, 1, 20)

NoData == [keys |-> {}, hourly |-> EmptyMapping, daily |-> EmptyMapping,
           current |-> EmptyMapping]

ValidPayload == [keys |-> Range(Required), hourly |-> HourlyOk, daily |-> DailyOk,
                 current |-> CurrentOk]

(* number of top-level keys that are missing or carry an incomplete section *)
Defects(p) ==
    Cardinality({k \in Range(Required) :
                    \/ k \notin p.keys
                    \/ k = "hourly" /\ p.hourly # HourlyOk
                    \/ k = "daily" /\ p.daily # DailyOk
                    \/ k = "current" /\ p.current # CurrentOk})

(* the bodies the endpoint may serve with status 200 *)
Payloads ==
    {p \in [keys : SUBSET Range(Required),
            hourly : SectionShapes(HourlyMetrics),
            daily : SectionShapes(DailyMetrics),
            current : {EmptyMapping, CurrentOk}] :
        /\ "hourly" \notin p.keys => p.hourly = EmptyMapping
        /\ "daily" \notin p.keys => p.daily = EmptyMapping
        /\ "current" \notin p.keys => p.current = EmptyMapping
        /\ Defects(p) <= MaxDefects}

(* data.get(section): falsy when the key is absent or its mapping is empty *)
Section(d, k) ==
    IF k \notin d.keys THEN EmptyMapping
    ELSE CASE k = "hourly" -> d.hourly
           [] k = "daily" -> d.daily
           [] k = "current" -> d.current

Falsy(m) == m.cols = {}

(* data.get(section, {}).get("time", []) *)
TimeArray(d, k) == Section(d, k).arr["time"]

----------------------------------------------------------------------------
(* Bronze validation functions: each returns the error it raises, if any   *)

NoError == [kind |-> "none", detail |-> <<>>]

(* ValueError("Missing top-level keys: ...") *)
validate_top_level_keys(d) ==
    LET missing == SelectSeq(Required, LAMBDA k : k \notin d.keys)
    IN  IF missing # <<>>
        THEN [kind |-> "MissingTopLevelKey", detail |-> missing]
        ELSE NoError

(* validate_sections without the check of the current section *)
ValidateSectionsMutant(d) ==
    IF Falsy(Section(d, "hourly")) THEN [kind |-> "EmptySection", detail |-> <<"hourly">>]
    ELSE IF Falsy(Section(d, "daily")) THEN [kind |-> "EmptySection", detail |-> <<"daily">>]
    ELSE NoError

(* ValueError("Missing or empty '<section>' section.") *)
validate_sections(d) ==
    IF Falsy(Section(d, "hourly")) THEN [kind |-> "EmptySection", detail |-> <<"hourly">>]
    ELSE IF Falsy(Section(d, "daily")) THEN [kind |-> "EmptySection", detail |-> <<"daily">>]
    ELSE IF Falsy(Section(d, "current")) THEN [kind |-> "EmptySection", detail |-> <<"current">>]
    ELSE NoError

(* validate_non_empty_arrays without the check of the daily time array *)
ValidateArraysMutant(d) ==
    IF TimeArray(d, "hourly") = <<>> THEN [kind |-> "EmptyTimeArray", detail |-> <<"hourly">>]
    ELSE NoError

(* ValueError("Hourly time array is empty.") / ("Daily time array is empty.") *)
validate_non_empty_arrays(d) ==
    IF TimeArray(d, "hourly") = <<>> THEN [kind |-> "EmptyTimeArray", detail |-> <<"hourly">>]
    ELSE IF TimeArray(d, "daily") = <<>> THEN [kind |-> "EmptyTimeArray", detail |-> <<"daily">>]
    ELSE NoError

----------------------------------------------------------------------------
(* The data lake *)

Path(dir, name) == [dir |-> dir, name |-> name]

InDir(dir) == {p \in DOMAIN files : p.dir = dir}

(* open(path, "w") / to_parquet(path): create or replace the file *)
WriteTo(store, path, content) ==
    [p \in DOMAIN store \cup {path} |-> IF p = path THEN content ELSE store[p]]

(* BRONZE_DIR / f"{safe}_raw_{timestamp}.json" *)
RawPath(location_name, instant) ==
    Path("bronze", sanitize_filename(location_name) \o RawTag \o strftime(instant) \o JsonExt)

RawContent(payload) ==
    [payload |-> payload, table |-> <<>>, src |-> <<>>, run |-> run, at |-> now]

----------------------------------------------------------------------------
(* HTTP fetch: session.get through HTTPAdapter(max_retries=retry_strategy) *)

RetryTotalMutant == 5 + 1   \* a retry budget one larger
RetryTotal == 5    \* Retry(total=5)
status_forcelist == {429, 500, 502, 503, 504}
Statuses == {200, 404} \cup status_forcelist

Outcome(stage, kind, location, status, detail) ==
    [stage |-> stage, kind |-> kind, location |-> location, status |-> status,
     detail |-> detail]

NoOutcome == Outcome("none", "none", <<>>, 0, <<>>)

IngestLocals == <<i, total, attempts, data, log>>
OtherStages == <<queue, df_daily, built>>

(* test_api_call.main entered *)
StartIngestion ==
    /\ pc = "idle"
    /\ run < MaxRuns
    /\ run' = run + 1
    /\ i' = 1
    /\ total' = RetryTotal
    /\ attempts' = 0
    /\ data' = NoData
    /\ log' = <<>>
    /\ IF locations = <<>>
       THEN pc' = "idle" /\ outcome' = Outcome("ingest", "success", <<>>, 0, <<>>)
       ELSE pc' = "fetch" /\ outcome' = Outcome("ingest", "running", <<>>, 0, <<>>)
    /\ UNCHANGED <<locations, now, files, cache, OtherStages>>

(* an exception that is recorded but swallowed: main goes back to fetching *)
RaiseMutant(kind, location, status, detail) ==
    /\ pc' = "fetch"
    /\ outcome' = Outcome("ingest", kind, location, status, detail)
    /\ data' = NoData

(* an exception leaves main: the loop stops, nothing more is written *)
Raise(kind, location, status, detail) ==
    /\ pc' = "idle"
    /\ outcome' = Outcome("ingest", kind, location, status, detail)
    /\ data' = NoData

(* the cached session answers from its store: no HTTP exchange *)
CacheHit ==
    /\ pc = "fetch"
    /\ locations[i] \in DOMAIN cache
    /\ data' = cache[locations[i]]
    /\ pc' = "validate_top_level_keys"
    /\ UNCHANGED <<locations, now, files, cache, run, i, total, attempts, log,
                   outcome, OtherStages>>

(* one HTTP exchange answered 200: the body is cached and returned *)
HttpOk(bodies) ==
    /\ pc = "fetch"
    /\ locations[i] \notin DOMAIN cache
    /\ \E p \in bodies :
          /\ data' = p
          /\ cache' = WriteTo(cache, locations[i], p)
    /\ attempts' = attempts + 1
    /\ pc' = "validate_top_level_keys"
    /\ UNCHANGED <<locations, now, files, run, i, total, log, outcome, OtherStages>>

(* one HTTP exchange answered a status of status_forcelist: Retry.increment *)
HttpTransient ==
    /\ pc = "fetch"
    /\ locations[i] \notin DOMAIN cache
    /\ \E status \in status_forcelist :
          /\ attempts' = attempts + 1
          /\ total' = total - 1
          /\ IF total - 1 < 0
             THEN Raise("RetryError", <<>>, status, <<>>)   \* is_exhausted
             ELSE UNCHANGED <<pc, outcome, data>>           \* sleep, send again
    /\ UNCHANGED <<locations, now, files, cache, run, i, log, OtherStages>>

(* any other status reaches line 105: RuntimeError(name, status) *)
HttpError ==
    /\ pc = "fetch"
    /\ locations[i] \notin DOMAIN cache
    /\ \E status \in Statuses \ ({200} \cup status_forcelist) :
          Raise("ApiError", locations[i], status, <<>>)
    /\ attempts' = attempts + 1
    /\ UNCHANGED <<locations, now, files, cache, run, i, total, log, OtherStages>>

Validate(at, check, passed, next) ==
    /\ pc = at
    /\ IF check.kind = "none"
       THEN /\ log' = Append(log, passed)
            /\ pc' = next
            /\ UNCHANGED <<data, outcome>>
       ELSE /\ Raise(check.kind, <<>>, 0, check.detail)
            /\ UNCHANGED log
    /\ UNCHANGED <<locations, now, files, cache, run, i, total, attempts, OtherStages>>

ValidateTopLevelKeys ==
    Validate("validate_top_level_keys", validate_top_level_keys(data),
             "Top-level key validation passed.", "validate_sections")

ValidateSections ==
    Validate("validate_sections", validate_sections(data),
             "Section completeness validation passed.", "validate_non_empty_arrays")

ValidateNonEmptyArrays ==
    Validate("validate_non_empty_arrays", validate_non_empty_arrays(data),
             "Non-empty array validation passed.", "save_raw_json")

(* save_raw_json, then the loop moves on to the next location or returns *)
SaveRawJson ==
    /\ pc = "save_raw_json"
    /\ files' = WriteTo(files, RawPath(locations[i], now), RawContent(data))
    /\ i' = i + 1
    /\ total' = RetryTotal
    /\ attempts' = 0
    /\ data' = NoData
    /\ log' = <<>>
    /\ IF i + 1 > Len(locations)
       THEN pc' = "idle" /\ outcome' = Outcome("ingest", "success", <<>>, 0, <<>>)
       ELSE pc' = "fetch" /\ UNCHANGED outcome
    /\ UNCHANGED <<locations, now, cache, run, OtherStages>>

(* the steps that call datetime.now() start at these positions *)
ReadsClock == {"save_raw_json", "process_file", "process_gold"}

(* wall-clock time passes; only a step that reads the clock can tell when,
   so the clock is advanced between runs and right before such a step *)
Tick ==
    /\ now < MaxInstant
    /\ pc \in ReadsClock \cup {"idle"}
    /\ now' = now + 1
    /\ UNCHANGED <<locations, files, cache, run, pc, IngestLocals, outcome, OtherStages>>

----------------------------------------------------------------------------
(* Tables (pandas DataFrames): the set of columns and the rows in order    *)

BadValue == -2000   \* a raw value neither to_datetime nor to_numeric parses

EmptyFrame == [cols |-> {}, rows |-> <<>>]

(* DataFrame.empty: no column or no row *)
IsEmptyFrame(df) == df.cols = {} \/ df.rows = <<>>

(* pd.to_datetime / pd.to_numeric with errors="coerce" *)
to_datetime(v) == IF v = BadValue THEN NaN ELSE v
to_numeric(v) == IF v = BadValue THEN NaN ELSE v

MaxOf(S) == CHOOSE x \in S : \A y \in S : y <= x
MinOf(S) == CHOOSE x \in S : \A y \in S : x <= y

(* rows of pd.DataFrame({k: pd.Series(v)}): the longest array decides *)
RowCount(m) == IF m.cols = {} THEN 0 ELSE MaxOf({Len(m.arr[c]) : c \in m.cols})

(* the cell of column c in row k: NaN where the column is short or absent *)
Cell(m, c, k) == IF c \in m.cols /\ k <= Len(m.arr[c]) THEN m.arr[c][k] ELSE NaN

Metadata == {"location", "load_timestamp"}

(* transform_current: one row from the flat mapping *)
transform_current(d, location, instant) ==
    LET current == Section(d, "current")
    IN  IF Falsy(current) THEN EmptyFrame
        ELSE [cols |-> current.cols \cup Metadata,
              rows |-> << [time |-> to_datetime(Cell(current, "time", 1)),
                           temperature_2m |-> Cell(current, "temperature_2m", 1),
                           location |-> location,
                           load_timestamp |-> instant] >>]

(* transform_hourly *)
transform_hourly(d, location, instant) ==
    LET hourly == Section(d, "hourly")
    IN  IF Falsy(hourly) THEN EmptyFrame
        ELSE [cols |-> hourly.cols \cup Metadata,
              rows |-> [k \in 1..RowCount(hourly) |->
                          [time |-> to_datetime(Cell(hourly, "time", k)),
                           temperature_2m |-> to_numeric(Cell(hourly, "temperature_2m", k)),
                           location |-> location,
                           load_timestamp |-> instant]]]

(* the rename map of transform_daily *)
Renamed(c) ==
    CASE c = "temperature_2m_max" -> "temp_max"
      [] c = "temperature_2m_min" -> "temp_min"
      [] c = "wind_speed_10m_max" -> "wind_speed_max"
      [] c = "precipitation_sum" -> "precip_total"
      [] OTHER -> c

(* transform_daily *)
transform_daily(d, location, instant) ==
    LET daily == Section(d, "daily")
    IN  IF Falsy(daily) THEN EmptyFrame
        ELSE [cols |-> {Renamed(c) : c \in daily.cols} \cup Metadata,
              rows |-> [k \in 1..RowCount(daily) |->
                          [time |-> to_datetime(Cell(daily, "time", k)),
                           temp_max |-> to_numeric(Cell(daily, "temperature_2m_max", k)),
                           temp_min |-> to_numeric(Cell(daily, "temperature_2m_min", k)),
                           wind_speed_max |-> to_numeric(Cell(daily, "wind_speed_10m_max", k)),
                           precip_total |-> to_numeric(Cell(daily, "precipitation_sum", k)),
                           location |-> location,
                           load_timestamp |-> instant]]]

----------------------------------------------------------------------------
(* Conformance stage: silver_transform.main and process_file *)

Chars(prefix) ==
    CASE prefix = "current" -> <<"c","u","r","r","e","n","t">>
      [] prefix = "hourly" -> <<"h","o","u","r","l","y">>
      [] prefix = "daily" -> <<"d","a","i","l","y">>
      [] prefix = "daily_summary" -> <<"d","a","i","l","y","_","s","u","m","m","a","r","y">>
      [] prefix = "alerts" -> <<"a","l","e","r","t","s">>
      [] prefix = "features" -> <<"f","e","a","t","u","r","e","s">>

(* folder / f"{safe_loc}_{prefix}_{timestamp}.parquet" *)
SilverPath(prefix, location, instant) ==
    Path(prefix, _sanitize_filename(location) \o <<"_">> \o Chars(prefix) \o <<"_">>
                 \o strftime(instant) \o ParquetExt)

TableContent(df, src) ==
    [payload |-> NoData, table |-> df, src |-> src, run |-> run, at |-> now]

(* save_parquet called whatever the frame holds *)
SaveParquetMutant(store, df, prefix, location, src) ==
    WriteTo(store, SilverPath(prefix, location, now), TableContent(df, src))

(* save_parquet, called only for a frame that is not empty *)
save_parquet(store, df, prefix, location, src) ==
    IF IsEmptyFrame(df) THEN store
    ELSE WriteTo(store, SilverPath(prefix, location, now), TableContent(df, src))

(* sorted(folder.glob(pattern)): the paths of a directory in str order *)
RECURSIVE Sorted(_)
Sorted(paths) ==
    IF paths = {} THEN <<>>
    ELSE LET least == CHOOSE p \in paths :
                         \A q \in paths \ {p} : StrLess(p.name, q.name)
         IN  <<least>> \o Sorted(paths \ {least})

load_bronze_files == Sorted(InDir("bronze"))

(* file_path.name.split("_raw_")[0] *)
LocationOf(file) == SplitHead(file.name, RawTag)

(* process_file: the three sections in turn, each saved unless empty *)
process_file(store, file) ==
    LET location == LocationOf(file)
        raw == store[file].payload
        s1 == save_parquet(store, transform_current(raw, location, now),
                           "current", location, file.name)
        s2 == save_parquet(s1, transform_hourly(raw, location, now),
                           "hourly", location, file.name)
    IN  save_parquet(s2, transform_daily(raw, location, now),
                     "daily", location, file.name)

StageLocals == <<i, total, attempts, data, log>>

(* silver_transform.main entered *)
StartSilver ==
    /\ pc = "idle"
    /\ run < MaxRuns
    /\ run' = run + 1
    /\ queue' = load_bronze_files
    /\ IF load_bronze_files = <<>>
       THEN pc' = "idle" /\ outcome' = Outcome("silver", "success", <<>>, 0, <<>>)
       ELSE pc' = "process_file" /\ outcome' = Outcome("silver", "running", <<>>, 0, <<>>)
    /\ UNCHANGED <<locations, now, files, cache, StageLocals, df_daily, built>>

(* one iteration of main's loop *)
ProcessFile ==
    /\ pc = "process_file"
    /\ files' = process_file(files, Head(queue))
    /\ queue' = Tail(queue)
    /\ IF Tail(queue) = <<>>
       THEN pc' = "idle" /\ outcome' = Outcome("silver", "success", <<>>, 0, <<>>)
       ELSE UNCHANGED <<pc, outcome>>
    /\ UNCHANGED <<locations, now, cache, run, StageLocals, df_daily, built>>

----------------------------------------------------------------------------
(* Curation stage: gold_transform *)

RECURSIVE SumOf(_)
SumOf(seq) == IF seq = <<>> THEN 0 ELSE Head(seq) + SumOf(Tail(seq))

IsNumber(v) == v # NaN

Column(rows, Field(_)) == [k \in DOMAIN rows |-> Field(rows[k])]

(* the values of a column that are not NaN: pandas aggregations skip NaN *)
NonNull(values) == SelectSeq(values, IsNumber)

(* "mean": the exact quotient num/den of the non-NaN values; NaN when none *)
Mean(values) == [num |-> SumOf(NonNull(values)), den |-> Len(NonNull(values))]
AggMax(values) == IF NonNull(values) = <<>> THEN NaN ELSE MaxOf(Range(NonNull(values)))
AggMin(values) == IF NonNull(values) = <<>> THEN NaN ELSE MinOf(Range(NonNull(values)))
AggSum(values) == SumOf(NonNull(values))

(* the label with the hot threshold made inclusive *)
WeatherLabelMutant(x) ==
    IF x.den > 0 /\ x.num >= 35 * x.den THEN "hot"
    ELSE IF x.den > 0 /\ x.num < 10 * x.den THEN "cold"
    ELSE "moderate"

(* lambda x: "hot" if x > 35 else ("cold" if x < 10 else "moderate") *)
weather_label(x) ==
    IF x.den > 0 /\ x.num > 35 * x.den THEN "hot"
    ELSE IF x.den > 0 /\ x.num < 10 * x.den THEN "cold"
    ELSE "moderate"

(* df.groupby(["time", "location"]): the keys, rows with a NaT key dropped *)
GroupKeys(rows) ==
    {<<r.time, r.location>> : r \in {q \in Range(rows) : q.time # NaN}}

KeyLess(a, b) == a[1] < b[1] \/ (a[1] = b[1] /\ StrLess(a[2], b[2]))

RECURSIVE SortedKeys(_)
SortedKeys(keys) ==
    IF keys = {} THEN <<>>
    ELSE LET least == CHOOSE a \in keys : \A b \in keys \ {a} : KeyLess(a, b)
         IN  <<least>> \o SortedKeys(keys \ {least})

Group(rows, key) ==
    SelectSeq(rows, LAMBDA r : r.time = key[1] /\ r.location = key[2])

SummaryRow(rows, key, instant) ==
    LET g == Group(rows, key)
        avg == Mean(Column(g, LAMBDA r : r.temp_max))
    IN  [time |-> key[1],
         location |-> key[2],
         avg_temp |-> avg,
         max_temp |-> AggMax(Column(g, LAMBDA r : r.temp_max)),
         min_temp |-> AggMin(Column(g, LAMBDA r : r.temp_min)),
         total_precip |-> AggSum(Column(g, LAMBDA r : r.precip_total)),
         max_wind_speed |-> AggMax(Column(g, LAMBDA r : r.wind_speed_max)),
         weather_label |-> weather_label(avg),
         load_timestamp |-> instant]

(* build_daily_summary *)
build_daily_summary(df, instant) ==
    LET keys == SortedKeys(GroupKeys(df.rows))
    IN  [cols |-> {"time", "location", "avg_temp", "max_temp", "min_temp",
                   "total_precip", "max_wind_speed", "weather_label", "load_timestamp"},
         rows |-> [k \in DOMAIN keys |-> SummaryRow(df.rows, keys[k], instant)]]

(* (series > threshold).astype(int): a comparison with NaN is False *)
Flag(v, threshold) == IF v # NaN /\ v > threshold THEN 1 ELSE 0

(* the lambda with the heat flag also raising the level to high *)
RiskLevelMutant(row) ==
    IF row.storm_flag = 1 \/ row.heat_alert_flag = 1 THEN "high"
    ELSE IF row.rain_alert_flag = 1 THEN "moderate"
    ELSE "low"

(* the lambda of build_alerts *)
risk_level(row) ==
    IF row.storm_flag = 1 THEN "high"
    ELSE IF row.rain_alert_flag = 1 THEN "moderate"
    ELSE "low"

AlertRow(r, instant) ==
    LET flags == [heat_alert_flag |-> Flag(r.temp_max, 35),
                  storm_flag |-> Flag(r.wind_speed_max, 50),
                  rain_alert_flag |-> Flag(r.precip_total, 20)]
    IN  [date |-> r.time,
         location |-> r.location,
         heat_alert_flag |-> flags.heat_alert_flag,
         storm_flag |-> flags.storm_flag,
         rain_alert_flag |-> flags.rain_alert_flag,
         risk_level |-> risk_level(flags),
         load_timestamp |-> instant]

(* build_alerts *)
build_alerts(df, instant) ==
    [cols |-> {"date", "location", "heat_alert_flag", "storm_flag", "rain_alert_flag",
               "risk_level", "load_timestamp"},
     rows |-> [k \in DOMAIN df.rows |-> AlertRow(df.rows[k], instant)]]

(* arithmetic on columns: NaN in, NaN out *)
Arith(a, b, result) == IF a = NaN \/ b = NaN THEN NaN ELSE result

(* build_features; the two columns with a 0.1 factor are kept in tenths *)
build_features(df, instant) ==
    [cols |-> df.cols \cup {"temperature_range", "humidity_index", "wind_chill"},
     rows |-> [k \in DOMAIN df.rows |->
                 LET r == df.rows[k]
                 IN  [time |-> r.time,
                      location |-> r.location,
                      temp_max |-> r.temp_max,
                      temp_min |-> r.temp_min,
                      wind_speed_max |-> r.wind_speed_max,
                      precip_total |-> r.precip_total,
                      temperature_range |->
                          Arith(r.temp_max, r.temp_min, r.temp_max - r.temp_min),
                      humidity_index_x10 |->
                          Arith(r.temp_max, r.precip_total, r.temp_max + 5 * r.precip_total),
                      wind_chill_x10 |->
                          Arith(r.temp_min, r.wind_speed_max, 10 * r.temp_min - r.wind_speed_max),
                      load_timestamp |-> instant]]]

NothingBuilt == [daily_summary |-> EmptyFrame, alerts |-> EmptyFrame, features |-> EmptyFrame]

(* folder / f"{location}_{prefix}_{timestamp}.parquet" *)
GoldPath(prefix, location, instant) ==
    Path(prefix, location \o <<"_">> \o Chars(prefix) \o <<"_">> \o strftime(instant)
                 \o ParquetExt)

save_gold(store, df, prefix, location, src) ==
    WriteTo(store, GoldPath(prefix, location, now), TableContent(df, src))

load_silver == Sorted(InDir("daily"))

(* the columns the three builders index *)
CuratedInputs == {"time", "location", "temp_max", "temp_min", "wind_speed_max",
                  "precip_total"}

(* what pd.read_parquet(file) then df_daily["location"].iloc[0] and the
   builders raise on this table, if anything *)
GoldError(df) ==
    IF "location" \notin df.cols THEN "KeyError"
    ELSE IF df.rows = <<>> THEN "IndexError"
    ELSE IF ~(CuratedInputs \subseteq df.cols) THEN "KeyError"
    ELSE "none"

(* process_gold entered *)
StartGold ==
    /\ pc = "idle"
    /\ run < MaxRuns
    /\ run' = run + 1
    /\ queue' = load_silver
    /\ df_daily' = EmptyFrame
    /\ built' = NothingBuilt
    /\ IF load_silver = <<>>
       THEN pc' = "idle" /\ outcome' = Outcome("gold", "success", <<>>, 0, <<>>)
       ELSE pc' = "process_gold" /\ outcome' = Outcome("gold", "running", <<>>, 0, <<>>)
    /\ UNCHANGED <<locations, now, files, cache, StageLocals>>

(* one iteration of process_gold's loop *)
ProcessGoldFile ==
    /\ pc = "process_gold"
    /\ LET file == Head(queue)
           df == files[file].table
       IN  /\ df_daily' = df
           /\ IF GoldError(df) # "none"
              THEN /\ pc' = "idle"
                   /\ outcome' = Outcome("gold", GoldError(df), <<>>, 0, <<>>)
                   /\ UNCHANGED <<files, queue, built>>
              ELSE LET location == df.rows[1].location
                       daily_summary == build_daily_summary(df, now)
                       alerts == build_alerts(df, now)
                       features == build_features(df, now)
                       g1 == save_gold(files, daily_summary, "daily_summary",
                                       location, files[file].src)
                       g2 == save_gold(g1, alerts, "alerts", location, files[file].src)
                   IN  /\ files' = save_gold(g2, features, "features", location,
                                             files[file].src)
                       /\ built' = [daily_summary |-> daily_summary, alerts |-> alerts,
                                    features |-> features]
                       /\ queue' = Tail(queue)
                       /\ IF Tail(queue) = <<>>
                          THEN /\ pc' = "idle"
                               /\ outcome' = Outcome("gold", "success", <<>>, 0, <<>>)
                          ELSE UNCHANGED <<pc, outcome>>
    /\ UNCHANGED <<locations, now, cache, run, StageLocals>>

----------------------------------------------------------------------------
(* The whole pipeline: the three stages, run one at a time in any order,   *)
(* over an endpoint that serves the complete payload or one with an empty  *)
(* daily section                                                           *)

PipelineConfigs ==
    { << <<"N","y">> >>,
      << <<"N","e","w"," ","R","a","w"," ","T","o","n">> >>,
      << <<"!","!">> >>,
      << <<"N","y">>, <<"n","Y","!">> >> }

PipelineBodies == {ValidPayload, [ValidPayload EXCEPT !.daily = EmptyMapping]}

Init ==
    /\ locations \in PipelineConfigs
    /\ now = 0
    /\ files = <<>>
    /\ cache = <<>>
    /\ run = 0
    /\ pc = "idle"
    /\ i = 1
    /\ total = RetryTotal
    /\ attempts = 0
    /\ data = NoData
    /\ log = <<>>
    /\ outcome = NoOutcome
    /\ queue = <<>>
    /\ df_daily = EmptyFrame
    /\ built = NothingBuilt

HttpOkPipeline == HttpOk(PipelineBodies)

Next ==
    \/ StartIngestion
    \/ CacheHit
    \/ HttpOkPipeline
    \/ HttpTransient
    \/ HttpError
    \/ ValidateTopLevelKeys
    \/ ValidateSections
    \/ ValidateNonEmptyArrays
    \/ SaveRawJson
    \/ StartSilver
    \/ ProcessFile
    \/ StartGold
    \/ ProcessGoldFile
    \/ Tick

Spec == Init /\ [][Next]_vars

----------------------------------------------------------------------------
(* Ingestion alone, over every body the endpoint may serve *)

Prefixes(master, n) == {SubSeq(master, 1, k) : k \in 0..(IF n < Len(master) THEN n ELSE Len(master))}

(* The HTTP cache is a file that outlives the process (requests_cache), so
   an invocation may start with the first location's body already cached. *)
IngestMaster == << <<"N","y">>, <<"S","t"," ","L","o">>, <<"R","i","o","!">>, <<"x">> >>

InitIngest ==
    /\ locations \in Prefixes(IngestMaster, MaxLocations)
    /\ now = 0
    /\ files = <<>>
    /\ cache \in {<<>>} \cup (IF locations = <<>> THEN {}
                           ELSE {WriteTo(<<>>, locations[1], p) : p \in PipelineBodies})
    /\ run = 0
    /\ pc = "idle"
    /\ i = 1
    /\ total = RetryTotal
    /\ attempts = 0
    /\ data = NoData
    /\ log = <<>>
    /\ outcome = NoOutcome
    /\ queue = <<>>
    /\ df_daily = EmptyFrame
    /\ built = NothingBuilt

HttpOkAny == HttpOk(Payloads)

InvokeIngestion == run < MaxIngestions /\ StartIngestion

NextIngest ==
    \/ InvokeIngestion
    \/ CacheHit
    \/ HttpOkAny
    \/ HttpTransient
    \/ HttpError
    \/ ValidateTopLevelKeys
    \/ ValidateSections
    \/ ValidateNonEmptyArrays
    \/ SaveRawJson
    \/ Tick

SpecIngest == InitIngest /\ [][NextIngest]_vars

----------------------------------------------------------------------------
(* Claims about ingestion, checked under SpecIngest *)

KeysPassed == "Top-level key validation passed."
SectionsPassed == "Section completeness validation passed."
ArraysPassed == "Non-empty array validation passed."

HasAllKeys(d) == \A k \in Range(Required) : k \in d.keys
HasTimes(d) == d.hourly.arr["time"] # <<>> /\ d.daily.arr["time"] # <<>>
SomeSectionEmpty(d) ==
    \E k \in {"hourly", "daily", "current"} : k \notin d.keys \/ Section(d, k).cols = {}

FailureKinds == {"ApiError", "RetryError", "MissingTopLevelKey", "EmptySection",
                 "EmptyTimeArray"}
ValidationSteps == {"validate_top_level_keys", "validate_sections",
                    "validate_non_empty_arrays"}

(* C1: a raw artifact is written only after the three validators passed, in
   the order keys, sections, arrays; so every payload in the bronze store has
   the six required top-level keys and non-empty hourly.time and daily.time,
   and a rejected payload is never written. *)
C1_ValidatorGatesBronze ==
    /\ \A p \in InDir("bronze") :
          HasAllKeys(files[p].payload) /\ HasTimes(files[p].payload)
    /\ pc = "save_raw_json" =>
          /\ log = <<KeysPassed, SectionsPassed, ArraysPassed>>
          /\ HasAllKeys(data) /\ HasTimes(data)
    /\ outcome.kind \in {"MissingTopLevelKey", "EmptySection", "EmptyTimeArray"} =>
          \A p \in InDir("bronze") : files[p].run = run =>
              \E j \in 1..(i - 1) : p.name = RawPath(locations[j], files[p].at).name

C1_Witness ==
    /\ \E p \in InDir("bronze") : files[p].run = run
    /\ outcome.kind = "EmptyTimeArray"

(* C3: the checks run in the order keys, sections, arrays and the first one
   that fails ends the validation with its own error kind, the later checks
   not having run: a missing top-level key gives MissingTopLevelKey with no
   check logged as passed, an empty section EmptySection after the key check
   only, an empty hourly.time or daily.time EmptyTimeArray after the key and
   section checks only. *)
C3_FirstFailureDecides ==
    [][(pc \in ValidationSteps /\ pc' # pc) =>
          /\ ~HasAllKeys(data) =>
                /\ pc = "validate_top_level_keys" /\ pc' = "idle"
                /\ outcome'.kind = "MissingTopLevelKey"
                /\ log = <<>> /\ log' = <<>>
          /\ (HasAllKeys(data) /\ SomeSectionEmpty(data)) =>
                \/ pc = "validate_top_level_keys" /\ pc' = "validate_sections"
                      /\ log' = <<KeysPassed>>
                \/ pc = "validate_sections" /\ pc' = "idle"
                      /\ outcome'.kind = "EmptySection"
                      /\ log = <<KeysPassed>> /\ log' = log
          /\ (HasAllKeys(data) /\ ~SomeSectionEmpty(data) /\ ~HasTimes(data)) =>
                \/ pc = "validate_top_level_keys" /\ pc' = "validate_sections"
                      /\ log' = <<KeysPassed>>
                \/ pc = "validate_sections" /\ pc' = "validate_non_empty_arrays"
                      /\ log' = <<KeysPassed, SectionsPassed>>
                \/ pc = "validate_non_empty_arrays" /\ pc' = "idle"
                      /\ outcome'.kind = "EmptyTimeArray"
                      /\ log = <<KeysPassed, SectionsPassed>> /\ log' = log
          /\ pc' = "save_raw_json" =>
                HasAllKeys(data) /\ ~SomeSectionEmpty(data) /\ HasTimes(data)
      ]_vars

(* each of the three kinds has been reported at its own place in the order *)
C3_Witness ==
    \/ outcome.kind = "MissingTopLevelKey" /\ outcome.detail = <<"daily">> /\ log = <<>>
          /\ i = 2

(* C4 as stated: at most 5 HTTP attempts per request, and every failed fetch
   ends in the error that carries the location name and the status code. *)
C4_AtMostFiveAttempts ==
    /\ attempts <= 5
    /\ outcome.kind \in {"ApiError", "RetryError"} =>
          outcome.kind = "ApiError" /\ outcome.location = locations[i]

(* C4, amended: a request is sent at most 6 times (the first attempt and 5
   retries); after the sixth transient status the fetch fails with the retry
   layer's error, which carries the status but no location name; a final
   status outside the retry list fails with the error carrying the location
   name and the status; no failed fetch returns a payload. *)
C4_AtMostSixAttempts ==
    /\ attempts <= 6
    /\ outcome.kind = "RetryError" =>
          /\ attempts = 6
          /\ outcome.status \in {429, 500, 502, 503, 504}
          /\ outcome.location = <<>>
    /\ outcome.kind = "ApiError" =>
          /\ outcome.location = locations[i]
          /\ outcome.status \notin {200, 429, 500, 502, 503, 504}
    /\ outcome.kind \in {"ApiError", "RetryError"} =>
          /\ pc = "idle" /\ data = NoData
          /\ \A p \in InDir("bronze") : files[p].run = run =>
                \E j \in 1..(i - 1) : p.name = RawPath(locations[j], files[p].at).name

C4_Witness == outcome.kind = "RetryError" /\ attempts = 6 /\ i = 2

(* the artifacts written by the current run: name without timestamp *)
WrittenThisRun ==
    {SubSeq(p.name, 1, Len(p.name) - Len(strftime(0)) - Len(JsonExt)) :
        p \in {q \in InDir("bronze") : files[q].run = run}}

(* C9: a fetch or validation failure at location i ends main at once: the
   stage is no longer running and has not returned normally, the run wrote
   no artifact for location i or a later one, and the artifacts it wrote for
   the locations before i are in the bronze store. *)
C9_FailureHaltsLoop ==
    (outcome.stage = "ingest" /\ outcome.kind \in FailureKinds) =>
        /\ pc = "idle"
        /\ i \in 1..Len(locations)
        /\ WrittenThisRun = {sanitize_filename(locations[j]) \o RawTag : j \in 1..(i - 1)}

C9_Witness ==
    /\ outcome.stage = "ingest" /\ outcome.kind \in FailureKinds
    /\ i = 2 /\ Len(locations) >= 2
    /\ WrittenThisRun # {}

----------------------------------------------------------------------------
(* Conformance alone, over one raw artifact of any shape *)

SilverShapes(metrics) ==
    SectionShapes(metrics)
    \cup {Mapping({"time"} \cup metrics,
                  [c \in SectionKeys |-> IF c = "time" THEN <<BadValue>> ELSE <<20>>])}

RawBodies ==
    {p \in [keys : {K \in SUBSET Range(Required) :
                       {"latitude", "longitude", "timezone"} \subseteq K},
            hourly : SilverShapes(HourlyMetrics),
            daily : SilverShapes(DailyMetrics),
            current : {EmptyMapping, CurrentOk}] :
        /\ "hourly" \notin p.keys => p.hourly = EmptyMapping
        /\ "daily" \notin p.keys => p.daily = EmptyMapping
        /\ "current" \notin p.keys => p.current = EmptyMapping}

Quiet ==
    /\ cache = <<>>
    /\ run = 0
    /\ i = 1
    /\ total = RetryTotal
    /\ attempts = 0
    /\ data = NoData
    /\ log = <<>>
    /\ outcome = NoOutcome
    /\ queue = <<>>
    /\ built = NothingBuilt

InitSilver ==
    /\ locations \in {<< <<"N","y">> >>, << <<"R","i","o","!">> >>}
    /\ now = 0
    /\ \E p \in RawBodies :
          files = WriteTo(<<>>, RawPath(locations[1], 0),
                          [payload |-> p, table |-> <<>>, src |-> <<>>, run |-> 0, at |-> 0])
    /\ pc = "idle"
    /\ df_daily = EmptyFrame
    /\ Quiet

NextSilver ==
    \/ StartSilver
    \/ ProcessFile
    \/ Tick

SpecSilver == InitSilver /\ [][NextSilver]_vars

----------------------------------------------------------------------------
(* Curation alone, over a conformed-daily directory that may hold zero-row *)
(* tables                                                                  *)

DailyTable(location, body) == transform_daily(body, location, 0)

ZeroRows(df) == [df EXCEPT !.rows = <<>>]

SilverCandidates ==
    { <<SilverPath("daily", <<"n","y">>, 0), <<"n","y">>>>,
      <<SilverPath("daily", <<"r","i","o">>, 0), <<"r","i","o">>>>,
      <<SilverPath("daily", <<"r","i","o">>, TicksPerSecond), <<"r","i","o">>>> }

StoredTable(df) == [payload |-> NoData, table |-> df, src |-> <<>>, run |-> 0, at |-> 0]

InitGold ==
    /\ locations = <<>>
    /\ now = 0
    /\ \E chosen \in SUBSET SilverCandidates :
          /\ chosen # {}
          /\ files \in [{c[1] : c \in chosen} ->
                          {StoredTable(df) : df \in
                              UNION {{DailyTable(c[2], ValidPayload),
                                      ZeroRows(DailyTable(c[2], ValidPayload))} :
                                     c \in chosen}}]
          /\ \A c \in chosen :
                files[c[1]].table \in {DailyTable(c[2], ValidPayload),
                                      ZeroRows(DailyTable(c[2], ValidPayload))}
    /\ pc = "idle"
    /\ df_daily = EmptyFrame
    /\ Quiet

NextGold ==
    \/ StartGold
    \/ ProcessGoldFile
    \/ Tick

SpecGold == InitGold /\ [][NextGold]_vars

----------------------------------------------------------------------------
(* The builders as functions of one daily table *)

DailyRow(time, location, temp_max, wind_speed_max, precip_total) ==
    [time |-> time, location |-> location, temp_max |-> temp_max, temp_min |-> 5,
     wind_speed_max |-> wind_speed_max, precip_total |-> precip_total,
     load_timestamp |-> 0]

DailyCols == CuratedInputs \cup {"load_timestamp"}

TablesOver(rowset) ==
    {[cols |-> DailyCols, rows |-> rows] :
        rows \in UNION {[1..n -> rowset] : n \in 1..MaxRows}}

AlertRows ==
    {DailyRow(1, <<"n","y">>, t, w, p) :
        t \in {10, 35, 36, NaN}, w \in {50, 51, 60, NaN}, p \in {5, 20, 21, NaN}}

SummaryRows ==
    {DailyRow(d, l, t, 10, 5) :
        d \in {1, 2, NaN}, l \in {<<"n","y">>, <<"r","i","o">>},
        t \in {5, 10, 20, 35, 36, 40, NaN}}

InitBuilder(tables) ==
    /\ locations = <<>>
    /\ now = 0
    /\ files = <<>>
    /\ pc = "call"
    /\ df_daily \in tables
    /\ Quiet

BuilderFrame == <<locations, now, files, cache, run, StageLocals, outcome, queue, df_daily>>

BuildAlerts ==
    /\ pc = "call"
    /\ built' = [built EXCEPT !.alerts = build_alerts(df_daily, now)]
    /\ pc' = "returned"
    /\ UNCHANGED BuilderFrame

BuildDailySummary ==
    /\ pc = "call"
    /\ built' = [built EXCEPT !.daily_summary = build_daily_summary(df_daily, now)]
    /\ pc' = "returned"
    /\ UNCHANGED BuilderFrame

InitAlerts == InitBuilder(TablesOver(AlertRows))
SpecAlerts == InitAlerts /\ [][BuildAlerts]_vars

InitSummary == InitBuilder(TablesOver(SummaryRows))
SpecSummary == InitSummary /\ [][BuildDailySummary]_vars

----------------------------------------------------------------------------
(* Claims about artifact names, checked under Spec *)

(* C2: two runs at different capture instants never produce the same
   artifact path, and no run overwrites an artifact written by a prior run:
   a file that exists is never replaced by the write of another run made at
   another instant. *)
C2_NoOverwriteAcrossRuns ==
    [][\A p \in DOMAIN files :
          /\ p \in DOMAIN files'
          /\ files'[p].run # files[p].run => files'[p].at = files[p].at
      ]_vars

(* the safe_location ingestion put in a raw artifact's name *)
SafeLocationOf(rawname) ==
    SubSeq(rawname, 1, Len(rawname) - Len(RawTag) - Len(strftime(0)) - Len(JsonExt))

NamedAfter(p, safe) ==
    p.name = safe \o <<"_">> \o Chars(p.dir) \o <<"_">> \o strftime(files[p].at) \o ParquetExt

Derived == {"current", "hourly", "daily", "daily_summary", "alerts", "features"}

(* C10: the location conformance derives from a raw artifact's name is the
   safe_location ingestion named it with, every conformed and curated
   artifact made from it carries that same string in its name, and raw
   artifacts of different safe_locations are given different locations. *)
C10_LocationSurvivesRoundTrip ==
    /\ \A p \in InDir("bronze") : LocationOf(p) = SafeLocationOf(p.name)
    /\ \A p \in DOMAIN files :
          p.dir \in Derived => NamedAfter(p, SafeLocationOf(files[p].src))
    /\ \A p, q \in InDir("bronze") :
          SafeLocationOf(p.name) # SafeLocationOf(q.name) => LocationOf(p) # LocationOf(q)

----------------------------------------------------------------------------
(* Claim about conformance, checked under SpecSilver *)

(* the section's table has a row: some array of the section has an entry *)
HasRows(d, k) ==
    /\ k \in d.keys
    /\ \E c \in Section(d, k).cols : Section(d, k).arr[c] # <<>>

Conformed(kind) == {p \in InDir(kind) : files[p].run = run}

(* C8: the three sections are handled independently and no zero-row
   artifact is persisted: once process_file has handled a raw artifact, the
   run has written an artifact for a section exactly when that section's
   table has a row; so an empty or absent hourly section leaves no hourly
   artifact while non-empty current and daily sections each leave theirs. *)
C8_SectionsIndependent ==
    /\ \A p \in DOMAIN files : p.dir \in Derived => files[p].table.rows # <<>>
    /\ (outcome.stage = "silver" /\ outcome.kind = "success") =>
          \A raw \in InDir("bronze") : \A kind \in {"current", "hourly", "daily"} :
              (Conformed(kind) # {}) <=> HasRows(files[raw].payload, kind)

C8_Witness ==
    /\ outcome.stage = "silver" /\ outcome.kind = "success"
    /\ \E raw \in InDir("bronze") :
          /\ "hourly" \in files[raw].payload.keys
          /\ files[raw].payload.hourly = EmptyMapping
    /\ Conformed("hourly") = {}
    /\ Conformed("current") # {}
    /\ Conformed("daily") # {}

----------------------------------------------------------------------------
(* Claim about curation, checked under SpecGold *)

(* C5: when the daily table process_gold reads is empty, curation is skipped
   for it: the step writes nothing, raises nothing, and the stage goes on to
   the remaining daily artifacts (or returns successfully after the last). *)
C5_EmptyTableSkipped ==
    [][(pc = "process_gold" /\ now' = now /\ files[Head(queue)].table.rows = <<>>) =>
          /\ files' = files
          /\ queue' = Tail(queue)
          /\ outcome'.kind \in {"running", "success"}
      ]_vars

----------------------------------------------------------------------------
(* Claim about build_alerts, checked under SpecAlerts *)

Exceeds(v, threshold) == v # NaN /\ v > threshold

(* C6: for every input row, storm_flag = (wind_speed_max > 50),
   rain_alert_flag = (precip_total > 20), heat_alert_flag = (temp_max > 35),
   each on its own; risk_level is "high" exactly when storm_flag is set,
   "moderate" exactly when storm_flag is unset and rain_alert_flag is set,
   "low" otherwise, whatever heat_alert_flag is. *)
C6_AlertRules ==
    pc = "returned" =>
        /\ Len(built.alerts.rows) = Len(df_daily.rows)
        /\ \A k \in DOMAIN df_daily.rows :
              LET r == df_daily.rows[k]
                  a == built.alerts.rows[k]
              IN  /\ a.storm_flag = 1 <=> Exceeds(r.wind_speed_max, 50)
                  /\ a.rain_alert_flag = 1 <=> Exceeds(r.precip_total, 20)
                  /\ a.heat_alert_flag = 1 <=> Exceeds(r.temp_max, 35)
                  /\ {a.storm_flag, a.rain_alert_flag, a.heat_alert_flag} \subseteq {0, 1}
                  /\ a.risk_level = "high" <=> Exceeds(r.wind_speed_max, 50)
                  /\ a.risk_level = "moderate" <=>
                        (~Exceeds(r.wind_speed_max, 50) /\ Exceeds(r.precip_total, 20))
                  /\ a.risk_level = "low" <=>
                        (~Exceeds(r.wind_speed_max, 50) /\ ~Exceeds(r.precip_total, 20))

(* wind 60, precip 5, temp 10 gives storm 1, rain 0, risk "high"; and a hot,
   calm, dry day stays "low" *)
C6_Witness ==
    /\ pc = "returned"
    /\ Len(df_daily.rows) = 2
    /\ df_daily.rows[1].wind_speed_max = 60 /\ df_daily.rows[1].precip_total = 5
    /\ df_daily.rows[1].temp_max = 10
    /\ built.alerts.rows[1].storm_flag = 1 /\ built.alerts.rows[1].rain_alert_flag = 0
    /\ built.alerts.rows[1].risk_level = "high"
    /\ df_daily.rows[2].temp_max = 36 /\ built.alerts.rows[2].heat_alert_flag = 1
    /\ built.alerts.rows[2].risk_level = "low"

----------------------------------------------------------------------------
(* Claim about build_daily_summary, checked under SpecSummary *)

PairOf(r) == <<r.time, r.location>>

(* the input rows of a (time, location) pair whose temp_max is not null *)
Measured(pair) ==
    {k \in DOMAIN df_daily.rows :
        PairOf(df_daily.rows[k]) = pair /\ df_daily.rows[k].temp_max # NaN}

RECURSIVE TempSum(_)
TempSum(ks) ==
    IF ks = {} THEN 0
    ELSE LET k == CHOOSE x \in ks : TRUE
         IN  df_daily.rows[k].temp_max + TempSum(ks \ {k})

SummaryOf(pair) == {k \in DOMAIN built.daily_summary.rows :
                       PairOf(built.daily_summary.rows[k]) = pair}

(* the summary row of a pair carries the mean and the label the rule gives *)
SummarisedRight(pair) ==
    /\ Cardinality(SummaryOf(pair)) = 1
    /\ \A k \in SummaryOf(pair) :
          LET out == built.daily_summary.rows[k]
              n == Cardinality(Measured(pair))
              total_temp == TempSum(Measured(pair))
          IN  /\ out.avg_temp.den = n
              /\ n > 0 => out.avg_temp.num * n = total_temp * out.avg_temp.den
              /\ out.weather_label = "hot" <=> (n > 0 /\ total_temp > 35 * n)
              /\ out.weather_label = "cold" <=> (n > 0 /\ total_temp < 10 * n)
              /\ out.weather_label = "moderate" <=>
                    (n = 0 \/ (total_temp <= 35 * n /\ total_temp >= 10 * n))

(* C7 as stated: exactly one summary row per distinct (time, location) pair
   of the input, with the mean of temp_max and its label. *)
C7_OneRowPerPair ==
    pc = "returned" =>
        /\ \A r \in Range(df_daily.rows) : SummarisedRight(PairOf(r))
        /\ Len(built.daily_summary.rows) =
              Cardinality({PairOf(r) : r \in Range(df_daily.rows)})

(* C7, amended: exactly one summary row per distinct (time, location) pair
   whose time is not null, and none for the rows whose time is null; avg_temp
   is the mean of the pair's non-null temp_max values (null when there is
   none); weather_label is "hot" when avg_temp > 35, "cold" when
   avg_temp < 10, "moderate" otherwise, 35 and 10 and a null avg_temp being
   "moderate". *)
C7_OneRowPerDatedPair ==
    pc = "returned" =>
        /\ \A r \in Range(df_daily.rows) :
              IF r.time = NaN THEN SummaryOf(PairOf(r)) = {}
              ELSE SummarisedRight(PairOf(r))
        /\ Len(built.daily_summary.rows) =
              Cardinality({PairOf(r) : r \in {q \in Range(df_daily.rows) : q.time # NaN}})

(* temp_max [40, 20] in one group gives avg_temp 30, "moderate" *)
C7_Witness ==
    /\ pc = "returned"
    /\ Len(df_daily.rows) = 2
    /\ df_daily.rows[1].temp_max = 40 /\ df_daily.rows[2].temp_max = 20
    /\ Len(built.daily_summary.rows) = 1
    /\ built.daily_summary.rows[1].avg_temp = [num |-> 60, den |-> 2]
    /\ built.daily_summary.rows[1].weather_label = "moderate"


----------------------------------------------------------------------------
(* Claim about writes within one run, checked under Spec *)

WrittenBy(kind) == {p \in InDir(kind) : files[p].run = run}

DailyInputs == {raw \in InDir("bronze") : HasRows(files[raw].payload, "daily")}

CurationInputs == {p \in InDir("daily") : files[p].table.rows # <<>>}

(* C11: no output written earlier in a run is overwritten by a later write
   of the same run: when a conformance run has returned, it has left as many
   conformed daily artifacts as the raw store holds artifacts with a
   non-empty daily section, and when a curation run has returned, it has
   left in each of daily_summary, alerts and features as many artifacts as
   the conformed-daily store holds non-empty artifacts. *)
C11_NoOverwriteWithinRun ==
    /\ (outcome.stage = "silver" /\ outcome.kind = "success") =>
          Cardinality(WrittenBy("daily")) = Cardinality(DailyInputs)
    /\ (outcome.stage = "gold" /\ outcome.kind = "success") =>
          \A kind \in {"daily_summary", "alerts", "features"} :
              Cardinality(WrittenBy(kind)) = Cardinality(CurationInputs)

====
